---- MODULE Spec2Model ----
(***************************************************************************)
(* SiPP - IPMP Analyzer (app.py): the column standardizer and the IPMP     *)
(* calculator, with the script's load / standardize / compute flow.        *)
(*                                                                         *)
(* A string is a sequence of one-character strings.  A DataFrame is a      *)
(* record [columns, index, data]: the column labels in order, the row      *)
(* labels in order, and data[r][c] the cell of row r under column c.       *)
(* A number is a record with numerator v and denominator d (d = 1 for an   *)
(* integer), so that Taken / total is kept exactly; d = 0 marks the        *)
(* inf/nan result of a division by zero.                                   *)
(***************************************************************************)
EXTENDS Integers, Sequences, FiniteSets, TLC

VARIABLES uploaded, df_raw, df_result, error, pc

vars == <<uploaded, df_raw, df_result, error, pc>>

(***************************************************************************)
(* Bounds of the model.                                                    *)
(***************************************************************************)
MaxCols == 6
MaxRows == 3

(***************************************************************************)
(* Strings: str.strip() and str.lower().                                   *)
(***************************************************************************)
UpperCase == <<"A","B","C","D","E","F","G","H","I","J","K","L","M",
               "N","O","P","Q","R","S","T","U","V","W","X","Y","Z">>
LowerCase == <<"a","b","c","d","e","f","g","h","i","j","k","l","m",
               "n","o","p","q","r","s","t","u","v","w","x","y","z">>
Whitespace == {" ", "\t", "\n"}

LowerMap ==
    [c \in {UpperCase[i] : i \in DOMAIN UpperCase} |->
        LowerCase[CHOOSE i \in DOMAIN UpperCase : UpperCase[i] = c]]

LowerChar(c) == IF c \in DOMAIN LowerMap THEN LowerMap[c] ELSE c

lower(s) == [i \in DOMAIN s |-> LowerChar(s[i])]

RECURSIVE lstrip(_)
lstrip(s) ==
    IF s # <<>> /\ Head(s) \in Whitespace THEN lstrip(Tail(s)) ELSE s

RECURSIVE rstrip(_)
rstrip(s) ==
    IF s # <<>> /\ s[Len(s)] \in Whitespace
    THEN rstrip(SubSeq(s, 1, Len(s) - 1))
    ELSE s

strip(s) == rstrip(lstrip(s))

(***************************************************************************)
(* The column names of the program.                                        *)
(***************************************************************************)
MataPelajaran == <<"M","a","t","a"," ","P","e","l","a","j","a","r","a","n">>
BilDaftar     == <<"B","i","l","."," ","D","a","f","t","a","r">>
BilAmbil      == <<"B","i","l","."," ","A","m","b","i","l">>
LPPC          == <<"%"," ","L"," ","P","P","C">>
LOTR2         == <<"%"," ","L"," ","O","T","R","2">>
BezaPeratus   == <<"B","e","z","a"," ","P","e","r","a","t","u","s"," ",
                   "(","P","P","C"," ","-"," ","O","T","R","2",")">>
Pemberat      == <<"P","e","m","b","e","r","a","t">>
IPMP          == <<"I","P","M","P">>
Ranking       == <<"R","a","n","k","i","n","g">>

EXPECTED_COLUMNS ==
    << [target  |-> MataPelajaran,
        options |-> << MataPelajaran,
                       <<"S","u","b","j","e","k">>,
                       <<"S","u","b","j","e","c","t">> >>],
       [target  |-> BilDaftar,
        options |-> << BilDaftar,
                       <<"D","a","f","t","a","r">>,
                       <<"B","i","l"," ","D","a","f","t","a","r">>,
                       <<"R","e","g","i","s","t","e","r","e","d">> >>],
       [target  |-> BilAmbil,
        options |-> << BilAmbil,
                       <<"A","m","b","i","l">>,
                       <<"B","i","l"," ","A","m","b","i","l">>,
                       <<"T","a","k","e","n">> >>],
       [target  |-> LPPC,
        options |-> << LPPC, <<"P","P","C">> >>],
       [target  |-> LOTR2,
        options |-> << LOTR2, <<"O","T","R","2">> >>] >>

(***************************************************************************)
(* Cells and tables.                                                       *)
(***************************************************************************)
Num(n)    == [k |-> "num",  v |-> n, d |-> 1, s |-> <<>>]
Frac(n,m) == [k |-> "num",  v |-> n, d |-> m, s |-> <<>>]
Text(t)   == [k |-> "text", v |-> 0, d |-> 1, s |-> t]
NaN       == [k |-> "nan",  v |-> 0, d |-> 1, s |-> <<>>]

None == [columns |-> <<>>, index |-> <<>>, data |-> <<>>]

Rows(df) == DOMAIN df.index

ColumnsSet(df) == {df.columns[i] : i \in DOMAIN df.columns}

\* the positions of the columns labelled c, in column order
RECURSIVE Positions(_, _, _)
Positions(columns, c, i) ==
    IF i > Len(columns) THEN <<>>
    ELSE (IF columns[i] = c THEN <<i>> ELSE <<>>) \o Positions(columns, c, i + 1)

(***************************************************************************)
(* standardize_columns                                                     *)
(***************************************************************************)
Matches(col, opt) == lower(strip(col)) = lower(strip(opt))

\* for col in df.columns: if <match>: mapping[col] = target; break
ScanColumns(columns, opt, target, mapping) ==
    LET hit == {i \in DOMAIN columns : Matches(columns[i], opt)}
    IN  IF hit # {}
        THEN LET col == columns[CHOOSE i \in hit : \A j \in hit : i <= j]
             IN  [c \in (DOMAIN mapping) \cup {col} |->
                     IF c = col THEN target ELSE mapping[c]]
        ELSE mapping

\* for opt in options: (the break above leaves only the loop over columns)
RECURSIVE ScanOptions(_, _, _, _, _)
ScanOptions(columns, options, o, target, mapping) ==
    IF o > Len(options) THEN mapping
    ELSE ScanOptions(columns, options, o + 1, target,
                     ScanColumns(columns, options[o], target, mapping))

\* for target, options in EXPECTED_COLUMNS.items():
RECURSIVE ScanTargets(_, _, _)
ScanTargets(columns, t, mapping) ==
    IF t > Len(EXPECTED_COLUMNS) THEN mapping
    ELSE ScanTargets(columns, t + 1,
                     ScanOptions(columns, EXPECTED_COLUMNS[t].options, 1,
                                 EXPECTED_COLUMNS[t].target, mapping))

EmptyMapping == [c \in {} |-> <<>>]

ColumnMapping(columns) == ScanTargets(columns, 1, EmptyMapping)

\* df.rename(columns=mapping)
rename(df, mapping) ==
    [df EXCEPT !.columns =
        [i \in DOMAIN df.columns |->
            IF df.columns[i] \in DOMAIN mapping
            THEN mapping[df.columns[i]]
            ELSE df.columns[i]]]

standardize_columns(df) == rename(df, ColumnMapping(df.columns))

(***************************************************************************)
(* compute_ipmp: the required columns                                      *)
(***************************************************************************)
\* a variant that looks for % L PPC before Bil. Ambil
needed_PPCFirst == <<MataPelajaran, LPPC, BilAmbil, LOTR2>>

needed == <<MataPelajaran, BilAmbil, LPPC, LOTR2>>

\* for c in needed: if c not in df.columns: raise ValueError(...)
\* the position in needed of the column the error names, 0 when none is raised
RECURSIVE FirstMissing(_, _)
FirstMissing(df, i) ==
    IF i > Len(needed) THEN 0
    ELSE IF needed[i] \notin ColumnsSet(df) THEN i
    ELSE FirstMissing(df, i + 1)

(***************************************************************************)
(* compute_ipmp: pd.to_numeric(..., errors="coerce").fillna(0)             *)
(***************************************************************************)
Digits == <<"0","1","2","3","4","5","6","7","8","9">>

IsDigit(c) == \E i \in DOMAIN Digits : Digits[i] = c

DigitValue(c) == (CHOOSE i \in DOMAIN Digits : Digits[i] = c) - 1

RECURSIVE ParseDigits(_, _)
ParseDigits(s, acc) ==
    IF s = <<>> THEN acc
    ELSE ParseDigits(Tail(s), 10 * acc + DigitValue(Head(s)))

IsDigits(s) == s # <<>> /\ \A i \in DOMAIN s : IsDigit(s[i])

\* a text cell parses when it is an optionally signed run of digits,
\* surrounding whitespace ignored; anything else is a parse failure
ParseText(s) ==
    LET t == strip(s)
    IN  IF IsDigits(t) THEN Num(ParseDigits(t, 0))
        ELSE IF t # <<>> /\ Head(t) = "-" /\ IsDigits(Tail(t))
             THEN Num(0 - ParseDigits(Tail(t), 0))
        ELSE IF t # <<>> /\ Head(t) = "+" /\ IsDigits(Tail(t))
             THEN Num(ParseDigits(Tail(t), 0))
        ELSE NaN

to_numeric(cell) ==
    IF cell.k = "text" THEN ParseText(cell.s) ELSE cell

\* a variant that leaves the missing values in place
fillna_Skipped(cell, value) == cell

fillna(cell, value) ==
    IF cell.k = "nan" THEN value ELSE cell

CoerceCell(cell) == fillna(to_numeric(cell), Num(0))

NumericColumns == <<BilDaftar, BilAmbil, LPPC, LOTR2>>

\* df[c] = <values>, for a label c that one column bears
SetColumn(df, c, values) ==
    IF c \in ColumnsSet(df)
    THEN [df EXCEPT !.data =
            [r \in DOMAIN df.data |->
                [j \in DOMAIN df.columns |->
                    IF df.columns[j] = c THEN values[r] ELSE df.data[r][j]]]]
    ELSE [df EXCEPT !.columns = Append(df.columns, c),
                    !.data = [r \in DOMAIN df.data |->
                                 Append(df.data[r], values[r])]]

\* df[c], for a label c that one column bears: the cells of that column by row
Column(df, c) ==
    LET j == CHOOSE i \in DOMAIN df.columns : df.columns[i] = c
    IN  [r \in DOMAIN df.data |-> df.data[r][j]]

\* df[c] is a Series when one column bears the label and a DataFrame when
\* several do; pd.to_numeric raises TypeError on a DataFrame
IsSeries(df, c) == Len(Positions(df.columns, c, 1)) = 1

\* for c in [...]: if c in df.columns: df[c] = pd.to_numeric(df[c], ...).fillna(0)
RECURSIVE Coerce(_, _)
Coerce(df, i) ==
    IF i > Len(NumericColumns) THEN [kind |-> "ok", table |-> df]
    ELSE LET c == NumericColumns[i]
         IN  IF c \notin ColumnsSet(df) THEN Coerce(df, i + 1)
             ELSE IF ~IsSeries(df, c) THEN [kind |-> "TypeError", table |-> None]
             ELSE Coerce(SetColumn(df, c,
                             [r \in DOMAIN df.data |-> CoerceCell(Column(df, c)[r])]),
                         i + 1)

(***************************************************************************)
(* compute_ipmp: the calculations                                          *)
(***************************************************************************)
Sub(a, b) == Num(a.v - b.v)

RECURSIVE SumV(_, _)
SumV(values, r) ==
    IF r > Len(values) THEN 0 ELSE values[r].v + SumV(values, r + 1)

\* df["Bil. Ambil"].sum()
total_ambil(df) == SumV(Column(df, BilAmbil), 1)

\* Series / scalar: a float division, which yields inf or nan (d = 0) and
\* does not raise when the scalar is 0
Div(a, total) ==
    IF total > 0 THEN Frac(a.v, total)
    ELSE IF total < 0 THEN Frac(0 - a.v, 0 - total)
    ELSE Frac(a.v, 0)

Mul(a, w) == Frac(a.v * w.v, w.d)

\* a variant that divides by the number of rows
Weights_ByRowCount(df) ==
    [r \in DOMAIN df.data |->
        IF total_ambil(df) > 0
        THEN Div(Column(df, BilAmbil)[r], Len(df.data))
        ELSE Num(0)]

\* a variant without the guard on the total
Weights_Unguarded(df) ==
    [r \in DOMAIN df.data |-> Div(Column(df, BilAmbil)[r], total_ambil(df))]

\* np.where(total_ambil > 0, df["Bil. Ambil"] / total_ambil, 0.0)
Weights(df) ==
    LET total == total_ambil(df)
        ratio == [r \in DOMAIN df.data |-> Div(Column(df, BilAmbil)[r], total)]
    IN  [r \in DOMAIN df.data |-> IF total > 0 THEN ratio[r] ELSE Num(0)]

Greater(a, b) == a.v * b.d > b.v * a.d
Equal(a, b)   == a.v * b.d = b.v * a.d

\* the values in descending order
RECURSIVE InsertDescending(_, _)
InsertDescending(x, s) ==
    IF s = <<>> THEN <<x>>
    ELSE IF Greater(x, Head(s)) THEN <<x>> \o s
    ELSE <<Head(s)>> \o InsertDescending(x, Tail(s))

RECURSIVE SortDescending(_)
SortDescending(s) ==
    IF s = <<>> THEN <<>> ELSE InsertDescending(Head(s), SortDescending(Tail(s)))

\* a variant that ranks densely: 1 plus the number of distinct greater values
rank_Dense(values) ==
    [r \in DOMAIN values |->
        Num(1 + Cardinality({[v |-> values[q].v, d |-> values[q].d] :
                                q \in {q \in DOMAIN values :
                                          Greater(values[q], values[r])}}))]

\* Series.rank(method="min", ascending=False).astype(int): the lowest position,
\* in descending order, of the group of values equal to the row's value
rank(values) ==
    LET sorted == SortDescending(values)
    IN  [r \in DOMAIN values |->
            Num(CHOOSE i \in DOMAIN sorted :
                    /\ Equal(sorted[i], values[r])
                    /\ \A j \in 1..(i - 1) : ~Equal(sorted[j], values[r]))]

Calculate(df) ==
    LET d1 == SetColumn(df, BezaPeratus,
                  [r \in DOMAIN df.data |->
                      Sub(Column(df, LPPC)[r], Column(df, LOTR2)[r])])
        d2 == SetColumn(d1, Pemberat, Weights(d1))
        d3 == SetColumn(d2, IPMP,
                  [r \in DOMAIN d2.data |->
                      Mul(Column(d2, BezaPeratus)[r], Column(d2, Pemberat)[r])])
    IN  SetColumn(d3, Ranking, rank(Column(d3, IPMP)))

(***************************************************************************)
(* compute_ipmp: the projection and the sort                               *)
(***************************************************************************)
cols == <<MataPelajaran, BilDaftar, BilAmbil, LPPC, LOTR2,
          BezaPeratus, Pemberat, IPMP, Ranking>>

\* df[[c for c in cols if c in df.columns]]: every column that bears a listed
\* label, label by label in the order of the list
RECURSIVE Selected(_, _)
Selected(columns, i) ==
    IF i > Len(cols) THEN <<>>
    ELSE Positions(columns, cols[i], 1) \o Selected(columns, i + 1)

Project(df) ==
    LET sel == Selected(df.columns, 1)
    IN  [columns |-> [j \in DOMAIN sel |-> df.columns[sel[j]]],
         index   |-> df.index,
         data    |-> [r \in DOMAIN df.data |->
                         [j \in DOMAIN sel |-> df.data[r][sel[j]]]]]

\* the orders of the rows: the bijections on the row positions
RowOrders(df) ==
    {p \in [Rows(df) -> Rows(df)] : \A a, b \in Rows(df) : p[a] = p[b] => a = b}

Reorder(df, p) ==
    [df EXCEPT !.index = [r \in DOMAIN df.index |-> df.index[p[r]]],
               !.data  = [r \in DOMAIN df.data |-> df.data[p[r]]]]

\* a variant that sorts the key descending
SortOrders_Descending(df, key) ==
    {p \in RowOrders(df) :
        \A a, b \in Rows(df) :
            a < b => ~Greater(Column(df, key)[p[b]], Column(df, key)[p[a]])}

\* sort_values(key): the default (quicksort) sort is not stable, so any order
\* of the rows with the key ascending may come out
SortOrders(df, key) ==
    LET keys == Column(df, key)
    IN  {p \in RowOrders(df) :
            \A a, b \in Rows(df) : a < b => ~Greater(keys[p[a]], keys[p[b]])}

\* compute_ipmp up to the projection: what is raised, or the table to sort
Computed(df) ==
    LET m == FirstMissing(df, 1)
    IN  IF m # 0
        THEN [kind |-> "ValueError", column |-> needed[m], table |-> None]
        ELSE LET c == Coerce(df, 1)
             IN  IF c.kind # "ok"
                 THEN [kind |-> c.kind, column |-> <<>>, table |-> None]
                 ELSE [kind |-> "ok", column |-> <<>>,
                       table |-> Project(Calculate(c.table))]

\* the results compute_ipmp may give for df
compute_ipmp(df) ==
    LET c == Computed(df)
    IN  IF c.kind # "ok" THEN {c}
        ELSE {[c EXCEPT !.table = Reorder(c.table, p)] :
                 p \in SortOrders(c.table, Ranking)}

(***************************************************************************)
(* The uploaded files.  pd.read_csv / pd.read_excel give a table whose     *)
(* column labels are distinct strings and whose row labels are 1..n.       *)
(***************************************************************************)
RECURSIVE Ascending(_)
Ascending(S) ==
    IF S = {} THEN <<>>
    ELSE LET m == CHOOSE x \in S : \A y \in S : x <= y
         IN  <<m>> \o Ascending(S \ {m})

Math    == Text(<<"M","a","t","h">>)
Science == Text(<<"S","c","i","e","n","c","e">>)

\* a sheet of two subjects whose headers are spelled in many ways; a file
\* holds some of its columns, in the order of the sheet
Sheet ==
    << [header |-> <<" ","m","a","t","a"," ","p","e","l","a","j","a","r","a","n"," ">>,
        cells  |-> <<Math, Science>>],
       [header |-> MataPelajaran,
        cells  |-> <<Math, Science>>],
       [header |-> <<"S","u","b","j","e","c","t">>,
        cells  |-> <<Math, Science>>],
       [header |-> <<"S","u","b","j","e","k">>,
        cells  |-> <<Math, Science>>],
       [header |-> <<"D","a","f","t","a","r">>,
        cells  |-> <<Num(120), Num(60)>>],
       [header |-> <<"T","a","k","e","n">>,
        cells  |-> <<Num(100), Num(50)>>],
       [header |-> <<"T","A","K","E","N"," ">>,
        cells  |-> <<Num(100), Num(50)>>],
       [header |-> <<"A","m","b","i","l">>,
        cells  |-> <<Num(100), Num(50)>>],
       [header |-> <<"P","P","C">>,
        cells  |-> <<Num(80), Num(60)>>],
       [header |-> LOTR2,
        cells  |-> <<Num(70), Num(65)>>],
       [header |-> <<"C","a","t","a","t","a","n">>,
        cells  |-> <<Text(<<>>), Text(<<"o","k">>)>>] >>

SheetTable(S) ==
    LET sel == Ascending(S)
    IN  [columns |-> [j \in DOMAIN sel |-> Sheet[sel[j]].header],
         index   |-> <<1, 2>>,
         data    |-> [r \in {1, 2} |->
                         [j \in DOMAIN sel |-> Sheet[sel[j]].cells[r]]]]

SheetSelections ==
    {S \in SUBSET (DOMAIN Sheet) : S # {} /\ Cardinality(S) <= MaxCols}

\* a file of up to MaxRows subjects under alias headers, its cells numbers,
\* numeric text, other text, empty text or missing
LedgerColumns ==
    << <<"S","u","b","j","e","k">>, <<"D","a","f","t","a","r">>,
       <<"A","m","b","i","l">>, <<"P","P","C">>, <<"O","T","R","2">> >>

TakenCells == {Num(0), Num(1), Num(-1), Text(<<"2">>)}

\* the cells of PPC and OTR2
RateCells ==
    { <<Num(2), Num(1)>>, <<Text(<<"a","b","c">>), Text(<<"1">>)>>, <<Num(1), NaN>> }

SubjectCell(r) == Text(<<"S", Digits[r + 1]>>)

RegisteredCell(r) ==
    IF r % 3 = 1 THEN Text(<<"4","2">>)
    ELSE IF r % 3 = 2 THEN Text(<<>>)
    ELSE NaN

LedgerTable(n, taken, rates) ==
    [columns |-> LedgerColumns,
     index   |-> [r \in 1..n |-> r],
     data    |-> [r \in 1..n |->
                     <<SubjectCell(r), RegisteredCell(r), taken[r],
                       rates[r][1], rates[r][2]>>]]

(***************************************************************************)
(* The script: one run loads the data, standardizes it and computes.       *)
(***************************************************************************)
NoError == [kind |-> "none", column |-> <<>>]

Init ==
    /\ uploaded = None
    /\ df_raw = None
    /\ df_result = None
    /\ error = NoError
    /\ pc = "start"

\* df_raw = pd.read_csv(uploaded) / pd.read_excel(uploaded)
Load ==
    /\ pc = "start"
    /\ \/ \E S \in SheetSelections :
             /\ uploaded' = SheetTable(S)
             /\ df_raw' = SheetTable(S)
       \/ \E n \in 0..MaxRows :
             \E taken \in [1..n -> TakenCells], rates \in [1..n -> RateCells] :
                /\ uploaded' = LedgerTable(n, taken, rates)
                /\ df_raw' = LedgerTable(n, taken, rates)
    /\ pc' = "loaded"
    /\ UNCHANGED <<df_result, error>>

\* if df_raw is None: st.info(...); st.stop()
NoData ==
    /\ pc = "start"
    /\ pc' = "stopped"
    /\ UNCHANGED <<uploaded, df_raw, df_result, error>>

\* df_raw = standardize_columns(df_raw)
Standardize ==
    /\ pc = "loaded"
    /\ df_raw' = standardize_columns(df_raw)
    /\ pc' = "standardized"
    /\ UNCHANGED <<uploaded, df_result, error>>

\* try: df_result = compute_ipmp(df_raw)
\* except Exception as e: st.error(...); st.stop()
Compute ==
    /\ pc = "standardized"
    /\ \E c \in compute_ipmp(df_raw) :
          IF c.kind = "ok"
          THEN /\ df_result' = c.table
               /\ error' = NoError
               /\ pc' = "computed"
          ELSE /\ df_result' = None
               /\ error' = [kind |-> c.kind, column |-> c.column]
               /\ pc' = "stopped"
    /\ UNCHANGED <<uploaded, df_raw>>

\* streamlit runs the script again from the top on the next interaction
Rerun ==
    /\ pc \in {"computed", "stopped"}
    /\ uploaded' = None
    /\ df_raw' = None
    /\ df_result' = None
    /\ error' = NoError
    /\ pc' = "start"

Next == Load \/ NoData \/ Standardize \/ Compute \/ Rerun

Spec == Init /\ [][Next]_vars

(***************************************************************************)
(* Properties                                                              *)
(***************************************************************************)
\* a file was loaded and standardize_columns has run on it
Normalized == uploaded # None /\ pc \in {"standardized", "computed", "stopped"}

\* compute_ipmp has returned a table
Returned == pc = "computed"

\* compute_ipmp has raised
Raised == pc = "stopped" /\ uploaded # None

Least(S) == CHOOSE x \in S : \A y \in S : x <= y

\* the raw header the first-alias-wins rule renames for canonical column t:
\* the first header matching the highest-priority alias that has a match
\* (0 when no alias of t has a match)
Winner(columns, t) ==
    LET options == EXPECTED_COLUMNS[t].options
        hits(o) == {i \in DOMAIN columns : Matches(columns[i], options[o])}
        matched == {o \in DOMAIN options : hits(o) # {}}
    IN  IF matched = {} THEN 0 ELSE Least(hits(Least(matched)))

FirstAliasWins(columns) ==
    [i \in DOMAIN columns |->
        IF \E t \in DOMAIN EXPECTED_COLUMNS : Winner(columns, t) = i
        THEN EXPECTED_COLUMNS[CHOOSE t \in DOMAIN EXPECTED_COLUMNS :
                                  Winner(columns, t) = i].target
        ELSE columns[i]]

\* C1: standardize_columns renames, for every canonical column, only the one
\* raw header that matches the highest-priority alias having a match, and
\* leaves every other header unchanged.
C1_FirstAliasWins ==
    Normalized => df_raw.columns = FirstAliasWins(uploaded.columns)

\* C2: standardize_columns is idempotent: standardizing the standardized
\* table renames nothing.
C2_Idempotent ==
    Normalized => standardize_columns(df_raw).columns = df_raw.columns

\* C3: standardize_columns followed by compute_ipmp either returns a table or
\* fails with the missing-column error; no other error is raised.
C3_OnlyMissingColumnError ==
    error.kind \in {"none", "ValueError"}

RequiredOrder == <<MataPelajaran, BilAmbil, LPPC, LOTR2>>

Absent == {i \in DOMAIN RequiredOrder : RequiredOrder[i] \notin ColumnsSet(df_raw)}

\* C4: compute_ipmp fails with the missing-column error exactly when a
\* required column is absent from its input; the error names the first
\* absent column in the order Subject, Taken, PassRatePPC, PassRateOTR2, and
\* nothing is computed: no table is returned and the input is not coerced.
C4_MissingColumn ==
    (Returned \/ Raised) =>
        /\ (error.kind = "ValueError") <=> (Absent # {})
        /\ error.kind = "ValueError" =>
              /\ error.column = RequiredOrder[Least(Absent)]
              /\ df_result = None
              /\ df_raw = standardize_columns(uploaded)

\* Taken is absent and so is PassRateOTR2, Subject is present
C4_Witness ==
    /\ Raised
    /\ error.kind = "ValueError"
    /\ error.column = BilAmbil
    /\ MataPelajaran \in ColumnsSet(df_raw)
    /\ LOTR2 \notin ColumnsSet(df_raw)

Result(c) == Column(df_result, c)

ResultRows == Rows(df_result)

\* C5: in every returned table each row's Rank is 1 plus the number of rows
\* whose IPMP is strictly greater; some row has Rank 1 when the table is
\* nonempty and every Rank lies between 1 and the row count.
C5_CompetitionRank ==
    Returned =>
        /\ \A r \in ResultRows :
              /\ Result(Ranking)[r] =
                    Num(1 + Cardinality({q \in ResultRows :
                                  Greater(Result(IPMP)[q], Result(IPMP)[r])}))
              /\ Result(Ranking)[r].v \in 1..Len(df_result.index)
        /\ ResultRows # {} => \E r \in ResultRows : Result(Ranking)[r] = Num(1)

\* two rows tie for rank 1 and the third has rank 3
C5_Witness ==
    /\ Returned
    /\ Len(df_result.index) = 3
    /\ Result(Ranking) = <<Num(1), Num(1), Num(3)>>
    /\ Result(IPMP)[1].v > 0

\* C6: the returned table holds exactly one row per input row and its rows
\* are in non-decreasing Rank order, so IPMP is non-increasing down the table.
C6_SortedPermutation ==
    Returned =>
        /\ Len(df_result.index) = Len(uploaded.index)
        /\ {df_result.index[r] : r \in ResultRows} = {uploaded.index[r] : r \in Rows(uploaded)}
        /\ \A r \in ResultRows :
              df_result.data[r][1] =
                 df_raw.data[df_result.index[r]]
                            [Least({j \in DOMAIN df_raw.columns :
                                       df_raw.columns[j] = MataPelajaran})]
        /\ \A a, b \in ResultRows :
              a < b => /\ Result(Ranking)[a].v <= Result(Ranking)[b].v
                       /\ ~Greater(Result(IPMP)[b], Result(IPMP)[a])

\* the sort moved the rows: the last input row comes first
C6_Witness ==
    /\ Returned
    /\ df_result.index = <<3, 1, 2>>
    /\ Result(Ranking) = <<Num(1), Num(2), Num(3)>>

ResultTotal == SumV(Result(BilAmbil), 1)

\* C7: when the coerced Taken values sum to totalTaken > 0, each row's
\* Weight is Taken / totalTaken, the Weights sum to 1, and each row's IPMP is
\* (PassRatePPC - PassRateOTR2) * Weight.
C7_WeightsSumToOne ==
    (Returned /\ ResultRows # {} /\ ResultTotal > 0) =>
        /\ \A r \in ResultRows :
              /\ Result(Pemberat)[r].d > 0
              /\ Result(Pemberat)[r].v * ResultTotal =
                    Result(BilAmbil)[r].v * Result(Pemberat)[r].d
              /\ Result(Pemberat)[r].d = Result(Pemberat)[1].d
              /\ Result(IPMP)[r].d > 0
              /\ Result(IPMP)[r].v * Result(Pemberat)[r].d =
                    (Result(LPPC)[r].v - Result(LOTR2)[r].v)
                       * Result(Pemberat)[r].v * Result(IPMP)[r].d
        /\ SumV(Result(Pemberat), 1) = Result(Pemberat)[1].d

\* three rows with Taken 2, 1 and -1: the weights are 2/2, 1/2 and -1/2
C7_Witness ==
    /\ Returned
    /\ Len(df_result.index) = 3
    /\ ResultTotal = 2
    /\ \E r \in ResultRows : Result(BilAmbil)[r] = Num(-1)
    /\ \E r \in ResultRows : Result(Pemberat)[r] = Frac(1, 2)

\* C8: when the coerced Taken values do not sum to more than 0, compute_ipmp
\* returns a table in which every row has Weight 0, IPMP 0 and Rank 1, and no
\* division by zero shows in it; compute_ipmp raises only for the columns of
\* its input, never for the values in them.
C8_ZeroTotal ==
    /\ (Returned /\ ResultTotal <= 0) =>
        \A r \in ResultRows :
            /\ Result(Pemberat)[r] = Num(0)
            /\ Result(IPMP)[r].v = 0
            /\ Result(IPMP)[r].d # 0
            /\ Result(Ranking)[r] = Num(1)
    /\ Raised =>
          \/ Absent # {}
          \/ \E i \in DOMAIN NumericColumns :
                Len(Positions(df_raw.columns, NumericColumns[i], 1)) > 1

\* every Taken is 0 while the differences of the rows differ
C8_Witness ==
    /\ Returned
    /\ Len(df_result.index) = 3
    /\ \A r \in ResultRows : Result(BilAmbil)[r] = Num(0)
    /\ \E a, b \in ResultRows : Result(BezaPeratus)[a] # Result(BezaPeratus)[b]
    /\ \E r \in Rows(uploaded) : uploaded.data[r][3] = Num(0)

\* the number each cell of the files stands for, 0 when it stands for none
Expected(cell) ==
    IF cell.k = "num" THEN Num(cell.v)
    ELSE IF cell = Text(<<"1">>) THEN Num(1)
    ELSE IF cell = Text(<<"2">>) THEN Num(2)
    ELSE IF cell = Text(<<"4","2">>) THEN Num(42)
    ELSE Num(0)

\* C9: every cell of the numeric columns present in the input is replaced by
\* the number it parses as, or by 0 when it does not parse; the Difference is
\* computed from the coerced values; the cells of Subject are left unchanged.
C9_Coercion ==
    Returned =>
        \A r \in ResultRows :
            LET raw == df_raw.data[df_result.index[r]]
            IN  /\ \A i \in DOMAIN NumericColumns :
                      NumericColumns[i] \in ColumnsSet(df_raw) =>
                          Result(NumericColumns[i])[r] =
                              Expected(Column(df_raw, NumericColumns[i])
                                             [df_result.index[r]])
                /\ Result(BezaPeratus)[r] =
                      Num(Expected(Column(df_raw, LPPC)[df_result.index[r]]).v
                          - Expected(Column(df_raw, LOTR2)[df_result.index[r]]).v)
                /\ \A j \in DOMAIN df_raw.columns :
                      df_raw.columns[j] = MataPelajaran =>
                          \E h \in DOMAIN df_result.columns :
                              /\ df_result.columns[h] = MataPelajaran
                              /\ df_result.data[r][h] = raw[j]

\* "abc", a missing cell, "2" and "42" were coerced to 0, 0, 2 and 42
C9_Witness ==
    /\ Returned
    /\ \E r \in Rows(df_raw) :
          /\ Column(df_raw, LPPC)[r] = Text(<<"a","b","c">>)
          /\ Column(df_raw, BilAmbil)[r] = Text(<<"2">>)
          /\ Column(df_raw, BilDaftar)[r] = Text(<<"4","2">>)
          /\ \E q \in ResultRows :
                /\ df_result.index[q] = r
                /\ Result(LPPC)[q] = Num(0)
                /\ Result(BilAmbil)[q] = Num(2)
                /\ Result(BilDaftar)[q] = Num(42)
    /\ \E r \in Rows(df_raw) :
          /\ Column(df_raw, LOTR2)[r] = NaN
          /\ \E q \in ResultRows :
                df_result.index[q] = r /\ Result(LOTR2)[q] = Num(0)

\* C10: the columns of every returned table are exactly, in this order,
\* Subject, Registered (only if the input had it), Taken, PassRatePPC,
\* PassRateOTR2, Difference, Weight, IPMP, Rank, each once.
C10_ResultColumns ==
    Returned =>
        df_result.columns =
            <<MataPelajaran>>
            \o (IF BilDaftar \in ColumnsSet(df_raw) THEN <<BilDaftar>> ELSE <<>>)
            \o <<BilAmbil, LPPC, LOTR2, BezaPeratus, Pemberat, IPMP, Ranking>>

====
